---- MODULE Spec2Model ----
(***************************************************************************)
(* A model of the clink toolchain: lexer, top-level scanner, structural    *)
(* parser (brackets, colon), module resolver, AST builder, tree-walking    *)
(* interpreter and the machine the code generator emits.                   *)
(*                                                                         *)
(* Strings of the program are TLA+ strings; a source text is a sequence of *)
(* one-character strings.  A Token / AST value is a record whose field t   *)
(* (resp. a) names the enum variant of parser.rs.                          *)
(***************************************************************************)
EXTENDS Integers, Sequences, FiniteSets, TLC

VARIABLES
    phase,              \* position of the run: see the actions
    files,              \* the project tree: sequence of [pkg, clink, text]
    entry,              \* main_func / vec_path: the entry function path
    input_bytes,        \* the bytes standard input holds when the run starts
    scanned,            \* the raw function table as scan_dir returned it
    functions,          \* parse: HashMap path -> raw token body
    packages,           \* parse: HashSet of package paths
    imported_packages,  \* parse: HashSet of imported package paths
    imports,            \* parse: HashMap file package -> set of imports
    func_defs,          \* parse: HashMap path -> AST body (program table)
    to_parse,           \* pending parse_funcs calls, in call order
    visits,             \* number of parse_funcs calls made so far
    err,                \* "" or the error / panic that ended the run
    param,              \* interpreter: the bit stack (Vec<bool>)
    kont,               \* interpreter: AST nodes still to execute
    stdin,              \* bytes not yet consumed from standard input
    out,                \* interpreter: bytes written to standard output
    steps,              \* instructions executed by the running backend
    stack,              \* compiled: the global [1024 x i1] buffer
    index,              \* compiled: the global i64 cursor
    ckont,              \* compiled: AST nodes still to execute
    cstdin,             \* compiled: bytes not yet consumed by getchar
    cout,               \* compiled: bytes written by putchar
    src,                \* pure-function specifications: the input
    res                 \* pure-function specifications: the result

vars == <<phase, files, entry, input_bytes, scanned,
          functions, packages, imported_packages,
          imports, func_defs, to_parse, visits, err, param, kont, stdin, out,
          steps, stack, index, ckont, cstdin, cout, src, res>>

(***************************************************************************)
(* Tokens and AST nodes (parser.rs, enum Token / enum AST)                 *)
(***************************************************************************)
Bang      == [t |-> "Bang"]
Question  == [t |-> "Question"]
Colon     == [t |-> "Colon"]
Semicolon == [t |-> "Semicolon"]
At        == [t |-> "At"]
Hash      == [t |-> "Hash"]
LBracket  == [t |-> "LBracket"]
RBracket  == [t |-> "RBracket"]
Bracket(c)    == [t |-> "Bracket", c |-> c]
Split(l, r)   == [t |-> "Split", l |-> l, r |-> r]
Id(id)        == [t |-> "Id", id |-> id]

ASTLeft       == [a |-> "Left"]
ASTRight      == [a |-> "Right"]
ASTPrint      == [a |-> "Print"]
ASTRead       == [a |-> "Read"]
ASTSplit(l, r) == [a |-> "Split", l |-> l, r |-> r]
Bracketed(c)  == [a |-> "Bracketed", c |-> c]
ASTId(id)     == [a |-> "Id", id |-> id]

Ok(v)   == [ok |-> TRUE, v |-> v]
Err(e)  == [ok |-> FALSE, err |-> e]

(***************************************************************************)
(* Lexer (parser.rs, tokenise / next_token)                                *)
(***************************************************************************)
\* char::is_whitespace, on the characters the model's texts use
is_whitespace(ch) == ch \in {" ", "\n", "\t", "\r"}

Sigils == {"!", "?", ":", "@", "#", ";", "(", ")"}

SigilToken(ch) ==
    CASE ch = "!" -> Bang
      [] ch = "?" -> Question
      [] ch = ":" -> Colon
      [] ch = "@" -> At
      [] ch = "#" -> Hash
      [] ch = ";" -> Semicolon
      [] ch = "(" -> LBracket
      [] ch = ")" -> RBracket

\* the while loop that drops leading whitespace
RECURSIVE SkipWhitespace(_)
SkipWhitespace(input) ==
    IF input # <<>> /\ is_whitespace(Head(input))
    THEN SkipWhitespace(Tail(input))
    ELSE input

\* TakeId without the test for the reserved characters
RECURSIVE TakeId_Greedy(_, _)
TakeId_Greedy(id, input) ==
    IF input = <<>> THEN [id |-> id, rest |-> input]
    ELSE IF ~is_whitespace(Head(input))
         THEN TakeId_Greedy(Append(id, Head(input)), Tail(input))
         ELSE [id |-> id, rest |-> input]

\* the inner loop of the identifier arm: [id, rest]
RECURSIVE TakeId(_, _)
TakeId(id, input) ==
    IF input = <<>> THEN [id |-> id, rest |-> input]
    ELSE IF Head(input) \in Sigils THEN [id |-> id, rest |-> input]
    ELSE IF ~is_whitespace(Head(input))
         THEN TakeId(Append(id, Head(input)), Tail(input))
         ELSE [id |-> id, rest |-> input]

\* str::split("."): the segments of a character sequence, as strings
RECURSIVE SplitDots(_, _)
SplitDots(segs, chars) ==
    IF chars = <<>> THEN segs
    ELSE IF Head(chars) = "."
         THEN SplitDots(Append(segs, ""), Tail(chars))
         ELSE SplitDots([segs EXCEPT ![Len(segs)] = @ \o Head(chars)],
                        Tail(chars))

\* next_token: [token |-> <<>> (None) or <<tok>> (Some), rest]
next_token(i) ==
    LET input == SkipWhitespace(i) IN
    IF input = <<>> THEN [token |-> <<>>, rest |-> input]
    ELSE IF Head(input) \in Sigils
         THEN [token |-> <<SigilToken(Head(input))>>, rest |-> Tail(input)]
         ELSE LET r == TakeId(<<>>, input) IN
              [token |-> <<Id(SplitDots(<<"">>, r.id))>>, rest |-> r.rest]

RECURSIVE TokeniseLoop(_, _)
TokeniseLoop(tokens, rest) ==
    LET n == next_token(rest) IN
    IF n.token = <<>> THEN tokens
    ELSE TokeniseLoop(Append(tokens, n.token[1]), n.rest)

tokenise(input) == TokeniseLoop(<<>>, input)

(***************************************************************************)
(* Structural parser (parser.rs, parse_brackets / parse_colon)             *)
(***************************************************************************)
\* parse_brackets_each: [tokens, rest], rest being what the shared
\* iterator still holds when the call returns
RECURSIVE parse_brackets_each(_, _)
parse_brackets_each(level, func) ==
    IF func = <<>> THEN [tokens |-> <<>>, rest |-> <<>>]
    ELSE IF Head(func) = LBracket
         THEN LET inner == parse_brackets_each(level + 1, Tail(func))
                  after == parse_brackets_each(level, inner.rest)
              IN  [tokens |-> <<Bracket(inner.tokens)>> \o after.tokens,
                   rest |-> after.rest]
    ELSE IF Head(func) = RBracket
         THEN [tokens |-> <<>>, rest |-> Tail(func)]
    ELSE LET after == parse_brackets_each(level, Tail(func))
         IN  [tokens |-> <<Head(func)>> \o after.tokens, rest |-> after.rest]

\* parse_brackets that resumes after an unmatched `)` instead of returning
RECURSIVE parse_brackets_Resume(_)
parse_brackets_Resume(func) ==
    LET r == parse_brackets_each(0, func) IN
    IF r.rest = <<>> THEN r.tokens
    ELSE r.tokens \o parse_brackets_Resume(r.rest)

parse_brackets(func) == parse_brackets_each(0, func).tokens

\* ColonArm with a second colon accepted
ColonArm_Lenient(split) == Ok(TRUE)

\* Collapse with the two branches exchanged
Collapse_Swapped(left, right, split) ==
    IF split THEN Ok(<<Split(right, left)>>) ELSE Ok(left)

\* the Token::Colon arm (lines 421-427): the new value of split, or the error
ColonArm(split) ==
    IF split THEN Err("UnknownAssociativity") ELSE Ok(TRUE)

\* lines 444-450: what parse_colon returns after its loop
Collapse(left, right, split) ==
    IF split THEN Ok(<<Split(left, right)>>) ELSE Ok(left)

\* parse_colon: Ok(tokens) or Err("UnknownAssociativity")
RECURSIVE parse_colon(_)
RECURSIVE ColonLoop(_, _, _, _)
ColonLoop(func, left, right, split) ==
    IF func = <<>>
    THEN Collapse(left, right, split)
    ELSE LET token == Head(func) IN
         IF token = Colon
         THEN LET a == ColonArm(split) IN
              IF ~a.ok THEN a
              ELSE ColonLoop(Tail(func), left, right, a.v)
         ELSE IF token.t = "Bracket"
         THEN LET c == parse_colon(token.c) IN
              IF ~c.ok THEN c
              ELSE IF split
                   THEN ColonLoop(Tail(func), left,
                                  Append(right, Bracket(c.v)), split)
                   ELSE ColonLoop(Tail(func),
                                  Append(left, Bracket(c.v)), right, split)
         ELSE IF split
              THEN ColonLoop(Tail(func), left, Append(right, token), split)
              ELSE ColonLoop(Tail(func), Append(left, token), right, split)

parse_colon(func) == ColonLoop(func, <<>>, <<>>, FALSE)

(***************************************************************************)
(* AST builder (parser.rs, parse_functions)                                *)
(***************************************************************************)
RECURSIVE parse_functions(_)
RECURSIVE BuildLoop(_, _, _)
\* the for loop over func.into_iter().rev(): i runs from Len(func) down to 1
BuildLoop(func, i, current) ==
    IF i = 0 THEN current
    ELSE LET token == func[i] IN
         BuildLoop(func, i - 1,
            CASE token.t = "Bracket" ->
                    IF current = <<>> THEN parse_functions(token.c)
                    ELSE Append(current, Bracketed(parse_functions(token.c)))
              [] token.t = "Bang"     -> Append(current, ASTLeft)
              [] token.t = "Question" -> Append(current, ASTRight)
              [] token.t = "At"       -> Append(current, ASTRead)
              [] token.t = "Hash"     -> Append(current, ASTPrint)
              [] token.t = "Split"    ->
                    Append(current, ASTSplit(parse_functions(token.l),
                                             parse_functions(token.r)))
              [] token.t = "Id"       -> Append(current, ASTId(token.id))
              [] OTHER                -> current)

\* parse_functions with the top-level nodes put back in source order
parse_functions_Forward(func) ==
    LET r == BuildLoop(func, Len(func), <<>>) IN
    [i \in 1..Len(r) |-> r[Len(r) + 1 - i]]

parse_functions(func) == BuildLoop(func, Len(func), <<>>)

(***************************************************************************)
(* HashMap helpers                                                         *)
(***************************************************************************)
EmptyMap == [k \in {} |-> <<>>]
contains_key(m, k) == k \in DOMAIN m
insert(m, k, v) == [x \in DOMAIN m \cup {k} |-> IF x = k THEN v ELSE m[x]]
\* remove that leaves the entry in the map
remove_Keep(m, k) == m
remove(m, k) == [x \in DOMAIN m \ {k} |-> m[x]]

NoErr == [kind |-> "", arg |-> <<>>]
Error(kind, arg) == [kind |-> kind, arg |-> arg]
\* a panic, with the call whose unwrap failed
PanicAt(call) == Error("panic", <<call>>)

(***************************************************************************)
(* Module resolver, phase 1 (parser.rs, scan_dir)                          *)
(***************************************************************************)
\* the for loop over the tokens of one .clink file (lines 245-296);
\* st holds the loop's locals and the three tables it updates
RECURSIVE ScanTokens(_, _, _)
ScanTokens(file_name, tokenised, st) ==
    IF tokenised = <<>>
    THEN IF st.defining
         THEN LET f_n == Append(file_name, st.current_func_name) IN
              IF contains_key(st.functions, f_n)
              THEN Err(Error("FunctionDefinedTwice", f_n))
              ELSE Ok([st EXCEPT
                         !.functions = insert(@, f_n, st.current_func)])
         ELSE Ok(st)
    ELSE
    LET token == Head(tokenised)
        rest  == Tail(tokenised)
    IN
    IF st.importing
    THEN IF token.t = "Id"
         THEN ScanTokens(file_name, rest,
                [st EXCEPT
                   !.imports =
                       LET m == IF contains_key(@, file_name) THEN @
                                ELSE insert(@, file_name, {})
                       IN  insert(m, file_name, m[file_name] \cup {token.id}),
                   !.imported_packages = @ \cup {token.id},
                   !.importing = FALSE])
         ELSE Err(Error("ExpectedPackageName", <<>>))
    ELSE IF st.defining
    THEN IF token = Semicolon
         THEN LET f_n == Append(file_name, st.current_func_name) IN
              IF contains_key(st.functions, f_n)
              THEN Err(Error("FunctionDefinedTwice", f_n))
              ELSE ScanTokens(file_name, rest,
                     [st EXCEPT !.functions = insert(@, f_n, st.current_func),
                                !.current_func = <<>>,
                                !.current_func_name = "",
                                !.defining = FALSE])
         ELSE ScanTokens(file_name, rest,
                [st EXCEPT !.current_func = Append(@, token)])
    ELSE IF token = Bang
    THEN ScanTokens(file_name, rest, [st EXCEPT !.importing = TRUE])
    ELSE IF token.t = "Id"
    THEN IF Len(token.id) # 1
         THEN Err(Error("CannotDefineFunctionOutsidePackage", token.id))
         ELSE ScanTokens(file_name, rest,
                [st EXCEPT !.current_func_name = token.id[1],
                           !.defining = TRUE])
    ELSE ScanTokens(file_name, rest, st)

\* one directory entry: its name joins packages; a .clink file is
\* tokenised and scanned.  tb = [functions, packages, imported_packages,
\* imports]
ScanEntry(file, tb) ==
    LET tb1 == [tb EXCEPT !.packages = @ \cup {file.pkg}] IN
    IF file.kind # "clink" THEN Ok(tb1)
    ELSE LET r == ScanTokens(file.pkg, tokenise(file.text),
                     [defining |-> FALSE, importing |-> FALSE,
                      current_func |-> <<>>, current_func_name |-> "",
                      functions |-> tb1.functions,
                      imports |-> tb1.imports,
                      imported_packages |-> tb1.imported_packages])
         IN  IF ~r.ok THEN r
             ELSE Ok([tb1 EXCEPT !.functions = r.v.functions,
                                 !.imports = r.v.imports,
                                 !.imported_packages = r.v.imported_packages])

\* scan_dir over the whole tree; fs lists the entries in the order the
\* nested read_dir loops meet them
RECURSIVE scan_dir(_, _)
scan_dir(fs, tb) ==
    IF fs = <<>> THEN Ok(tb)
    ELSE LET r == ScanEntry(Head(fs), tb) IN
         IF ~r.ok THEN r ELSE scan_dir(Tail(fs), r.v)

(***************************************************************************)
(* Module resolver, phase 2 (parser.rs, parse_funcs)                       *)
(***************************************************************************)
\* the test of lines 327, 335 and 352
Known(current, fns, defs, m) ==
    current = m \/ contains_key(fns, m) \/ contains_key(defs, m)

\* Found with the first match kept and a second match ignored
Found_KeepFirst(found, m, id) ==
    IF found = <<>> THEN Ok(<<m>>) ELSE Ok(found)

\* lines 336-340 and 354-358: a match m when found is <<>> (None) or
\* <<x>> (Some)
Found(found, m, id) ==
    IF found = <<>> THEN Ok(<<m>>) ELSE Err(Error("AmbiguousReference", id))

\* the loop `for d in &dirn` / `for d in import` (lines 331-342, 348-360):
\* prefixes of path, shortest first, starting from the k-th.
\* found is <<>> (None) or <<m>> (Some)
RECURSIVE PrefixLoop(_, _, _, _, _, _, _)
PrefixLoop(path, k, id, found, current, fns, defs) ==
    IF k > Len(path) THEN Ok(found)
    ELSE LET m == SubSeq(path, 1, k) \o id IN
         IF Known(current, fns, defs, m)
         THEN LET r == Found(found, m, id) IN
              IF ~r.ok THEN r
              ELSE PrefixLoop(path, k + 1, id, r.v, current, fns, defs)
         ELSE PrefixLoop(path, k + 1, id, found, current, fns, defs)

\* the loop over the HashSet imports[dirn] (lines 346-361)
RECURSIVE ImportLoop(_, _, _, _, _, _)
ImportLoop(todo, id, found, current, fns, defs) ==
    IF todo = {} THEN Ok(found)
    ELSE LET import == CHOOSE i \in todo : TRUE
             r == PrefixLoop(import, 1, id, found, current, fns, defs)
         IN  IF ~r.ok THEN r
             ELSE ImportLoop(todo \ {import}, id, r.v, current, fns, defs)

\* lines 326-370 for one Id token: Ok(path) or Err(error)
ResolveId(current, dirn, id, fns, defs, imps) ==
    LET own == IF Known(current, fns, defs, id) THEN Ok(<<id>>)
               ELSE PrefixLoop(dirn, 1, id, <<>>, current, fns, defs)
    IN
    IF ~own.ok THEN own
    ELSE IF own.v # <<>> THEN Ok(own.v[1])
    ELSE IF ~contains_key(imps, dirn)
         THEN Err(PanicAt("imports.get(&dirn).unwrap()"))
    ELSE LET imp == ImportLoop(imps[dirn], id, <<>>, current, fns, defs) IN
         IF ~imp.ok THEN imp
         ELSE IF imp.v # <<>> THEN Ok(imp.v[1])
         ELSE Err(Error("UnknownFunction", id))

\* Queue with the resolved path not queued for parsing
Queue_Drop(tp, x) == tp

\* line 366: to_parse.push(x.clone())
Queue(tp, x) == Append(tp, x)

\* the for loop over the raw body (lines 324-374):
\* Ok([new_f, to_parse]) or Err(error)
RECURSIVE ResolveBody(_, _, _, _, _, _, _, _)
ResolveBody(f, new_f, tp, current, dirn, fns, defs, imps) ==
    IF f = <<>> THEN Ok([new_f |-> new_f, to_parse |-> tp])
    ELSE LET token == Head(f) IN
         IF token.t = "Id"
         THEN LET r == ResolveId(current, dirn, token.id, fns, defs, imps) IN
              IF ~r.ok THEN r
              ELSE ResolveBody(Tail(f), Append(new_f, Id(r.v)),
                               Queue(tp, r.v), current, dirn, fns, defs, imps)
         ELSE ResolveBody(Tail(f), Append(new_f, token), tp,
                          current, dirn, fns, defs, imps)

\* dirn: current without its last segment (Vec::pop on an empty Vec is a
\* no-op)
Dirn(current) ==
    IF current = <<>> THEN <<>> ELSE SubSeq(current, 1, Len(current) - 1)

\* line 376
BuildBody(new_f) ==
    LET c == parse_colon(parse_brackets(new_f)) IN
    IF ~c.ok THEN Err(Error(c.err, <<>>)) ELSE Ok(parse_functions(c.v))

(***************************************************************************)
(* Interpreter (interpreter.rs)                                            *)
(***************************************************************************)
NewLine == 10
CarriageReturn == 13

\* BufRead::read_line: the bytes up to and including the first '\n', or
\* all of them at end of input
RECURSIVE LineLen(_, _)
LineLen(bytes, n) ==
    IF n = Len(bytes) THEN n
    ELSE IF bytes[n + 1] = NewLine THEN n + 1
    ELSE LineLen(bytes, n + 1)

IsCont(b) == b >= 128 /\ b <= 191

\* the UTF-8 scalar at the head of bytes: [n |-> bytes used (0: ill-formed),
\* code |-> scalar value]
DecodeChar(bytes) ==
    LET b1 == bytes[1]
        has(k) == Len(bytes) >= k /\ \A j \in 2..k : IsCont(bytes[j])
    IN
    IF b1 < 128 THEN [n |-> 1, code |-> b1]
    ELSE IF b1 >= 194 /\ b1 <= 223 /\ has(2)
         THEN [n |-> 2, code |-> (b1 - 192) * 64 + (bytes[2] - 128)]
    ELSE IF b1 >= 224 /\ b1 <= 239 /\ has(3)
            /\ (b1 = 224 => bytes[2] >= 160) /\ (b1 = 237 => bytes[2] <= 159)
         THEN [n |-> 3, code |-> (b1 - 224) * 4096 + (bytes[2] - 128) * 64
                                   + (bytes[3] - 128)]
    ELSE IF b1 >= 240 /\ b1 <= 244 /\ has(4)
            /\ (b1 = 240 => bytes[2] >= 144) /\ (b1 = 244 => bytes[2] <= 143)
         THEN [n |-> 4, code |-> (b1 - 240) * 262144 + (bytes[2] - 128) * 4096
                                   + (bytes[3] - 128) * 64 + (bytes[4] - 128)]
    ELSE [n |-> 0, code |-> 0]

\* String::from_utf8 on a line: Ok(sequence of scalar values) or Err
RECURSIVE DecodeLine(_, _)
DecodeLine(bytes, chars) ==
    IF bytes = <<>> THEN Ok(chars)
    ELSE LET d == DecodeChar(bytes) IN
         IF d.n = 0 THEN Err(PanicAt("read_line(&mut s).unwrap()"))
         ELSE DecodeLine(SubSeq(bytes, d.n + 1, Len(bytes)),
                         Append(chars, d.code))

\* if let Some(c) = s.chars().next_back() { s.pop(); }
StripLast(s, c) ==
    IF s # <<>> /\ s[Len(s)] = c THEN SubSeq(s, 1, Len(s) - 1) ELSE s

\* read_char: Ok([code, rest]) or Err(PanicAt(..)) where an unwrap fails
read_char(input) ==
    LET n    == LineLen(input, 0)
        line == DecodeLine(SubSeq(input, 1, n), <<>>)
        rest == SubSeq(input, n + 1, Len(input))
    IN
    IF ~line.ok THEN line
    ELSE LET s == StripLast(StripLast(line.v, NewLine), CarriageReturn) IN
         IF s = <<>> THEN Err(PanicAt("s.chars().next().unwrap()"))
         ELSE Ok([code |-> s[1], rest |-> rest])

\* print!("{}", char::from(total)): the UTF-8 encoding of U+0000..U+00FF
EncodeChar(total) ==
    IF total < 128 THEN <<total>>
    ELSE <<192 + (total \div 64), 128 + (total % 64)>>

\* Pop with the missing value of an empty stack read as true
Pop_DefaultTrue(p) ==
    IF p = <<>> THEN [bit |-> TRUE, rest |-> p]
    ELSE [bit |-> p[Len(p)], rest |-> SubSeq(p, 1, Len(p) - 1)]

\* Vec::pop().unwrap_or(false): [bit, rest]
Pop(p) ==
    IF p = <<>> THEN [bit |-> FALSE, rest |-> p]
    ELSE [bit |-> p[Len(p)], rest |-> SubSeq(p, 1, Len(p) - 1)]

\* the for loop of the Print arm (lines 61-67): [total, param]
RECURSIVE PrintLoop(_, _, _)
PrintLoop(i, total, p) ==
    IF i = 8 THEN [total |-> total, param |-> p]
    ELSE LET q == Pop(p) IN
         PrintLoop(i + 1,
                   ((total * 2) % 256) + (IF q.bit THEN 1 ELSE 0), q.rest)

\* the for loop of the Read arm (lines 72-79)
RECURSIVE ReadLoop(_, _, _)
ReadLoop(i, code, p) ==
    IF i = 8 THEN p
    ELSE ReadLoop(i + 1, code \div 2, Append(p, code % 2 # 0))

(***************************************************************************)
(* The generated program (compiler.rs)                                     *)
(***************************************************************************)
ARRAY_SIZE == 1024

\* incri without the test against the capacity
incri_Unchecked(i) == i + 1

\* decri (lines 53-81) and incri (lines 83-115), on the value of @index
decri(i) == IF i = 0 THEN i ELSE i - 1
incri(i) == IF i + 1 >= ARRAY_SIZE THEN i ELSE i + 1

\* print (lines 117-144): [acc, index].  acc is an i32 that eight
\* doublings from 0 keep below 256, so the arithmetic never wraps
RECURSIVE NatPrintLoop(_, _, _, _)
NatPrintLoop(n, acc, i, st) ==
    IF n = 8 THEN [acc |-> acc, index |-> i]
    ELSE LET j == decri(i) IN
         NatPrintLoop(n + 1, (acc * 2) + (IF st[j] THEN 1 ELSE 0), j, st)

\* read (lines 146-169): [stack, index].  The eight truncations to i1 and
\* logical right shifts read bits 0..7 of getchar's i32, so acc carries
\* those eight bits only
RECURSIVE NatReadLoop(_, _, _, _)
NatReadLoop(n, acc, i, st) ==
    IF n = 8 THEN [stack |-> st, index |-> i]
    ELSE NatReadLoop(n + 1, acc \div 2, incri(i),
                     [st EXCEPT ![i] = (acc % 2 = 1)])

\* getchar: the next byte, or EOF (-1, whose low eight bits are all ones)
getchar(input) ==
    IF input = <<>> THEN [c |-> 255, rest |-> input]
    ELSE [c |-> Head(input), rest |-> Tail(input)]

\* putchar writes its argument converted to unsigned char
putchar(acc) == <<acc % 256>>

(***************************************************************************)
(* The run: `clink run <file>` (main.rs, run) as a state machine           *)
(*   phase "scan"     parse has been called, scan_dir not yet run          *)
(*         "imports"  scan_dir returned Ok                                 *)
(*         "resolve"  parse_funcs calls are pending in to_parse            *)
(*         "parsed"   parse returned Ok(func_defs)                         *)
(*         "interp"   do_ast is executing kont                             *)
(*         "done"     interpret returned Ok                                *)
(*         "error"    the run ended with err (an Err value or a panic)     *)
(***************************************************************************)
MaxSteps == 12

projVars == <<files, entry, input_bytes>>
tblVars  == <<functions, packages, imported_packages, imports>>
resVars  == <<func_defs, to_parse, visits>>
scanVars == <<scanned>>
intVars  == <<param, kont, stdin, out, steps>>
natVars  == <<stack, index, ckont, cstdin, cout>>
pureVars == <<src, res>>

\* parse, lines 170-183
ScanDir ==
    /\ phase = "scan"
    /\ LET r == scan_dir(files, [functions |-> EmptyMap, packages |-> {},
                                 imported_packages |-> {}, imports |-> EmptyMap])
       IN  IF r.ok
           THEN /\ functions' = r.v.functions
                /\ packages' = r.v.packages
                /\ imported_packages' = r.v.imported_packages
                /\ imports' = r.v.imports
                /\ scanned' = r.v.functions
                /\ phase' = "imports"
                /\ err' = err
           ELSE /\ phase' = "error"
                /\ err' = r.err
                /\ UNCHANGED <<tblVars, scanVars>>
    /\ UNCHANGED <<projVars, resVars, intVars, natVars, pureVars>>

\* parse, lines 185-193: the UnknownPackage check, then the first
\* parse_funcs call is made with main_func.  main.rs hands parse the file
\* path where a path of segments is expected; the model hands it vec_path,
\* the entry function path that interpret and compile are given
\* (main.rs, lines 63-75 and 95-107)
CheckImports ==
    /\ phase = "imports"
    /\ IF imported_packages \subseteq packages
       THEN /\ phase' = "resolve"
            /\ to_parse' = <<entry>>
            /\ err' = err
       ELSE /\ \E pkg \in imported_packages \ packages :
                   err' = Error("UnknownPackage", pkg)
            /\ phase' = "error"
            /\ to_parse' = to_parse
    /\ UNCHANGED <<projVars, tblVars, scanVars, func_defs, visits, intVars,
                   natVars, pureVars>>

\* one call parse_funcs(current, ...), lines 305-385; the calls it makes
\* in its final loop are queued in front of the caller's remaining ones
ParseFuncs ==
    /\ phase = "resolve"
    /\ to_parse # <<>>
    /\ LET current == Head(to_parse)
           dirn    == Dirn(current)
       IN
       /\ visits' = visits + 1
       /\ IF ~contains_key(functions, current)
          THEN /\ to_parse' = Tail(to_parse)
               /\ UNCHANGED <<functions, func_defs, phase, err>>
          ELSE LET fns == remove(functions, current)
                   r   == ResolveBody(functions[current], <<>>, <<>>, current,
                                      dirn, fns, func_defs, imports)
                   p_f == IF r.ok THEN BuildBody(r.v.new_f) ELSE r
               IN
               /\ functions' = fns
               /\ IF p_f.ok
                  THEN /\ func_defs' = insert(func_defs, current, p_f.v)
                       /\ to_parse' = r.v.to_parse \o Tail(to_parse)
                       /\ UNCHANGED <<phase, err>>
                  ELSE /\ phase' = "error"
                       /\ err' = p_f.err
                       /\ UNCHANGED <<func_defs, to_parse>>
    /\ UNCHANGED <<projVars, packages, imported_packages, imports, scanVars,
                   intVars, natVars, pureVars>>

\* parse, lines 195-197: every parse_funcs call has returned Ok
ParseDone ==
    /\ phase = "resolve"
    /\ to_parse = <<>>
    /\ phase' = "parsed"
    /\ UNCHANGED <<projVars, tblVars, scanVars, resVars, err, intVars, natVars,
                   pureVars>>

\* interpret, lines 18-31: the entry lookup and the first do_ast call
Interpret ==
    /\ phase = "parsed"
    /\ IF contains_key(func_defs, entry)
       THEN /\ phase' = "interp"
            /\ kont' = func_defs[entry]
            /\ param' = <<>>
            /\ err' = err
       ELSE /\ phase' = "error"
            /\ err' = Error("NoSuchFunction", entry)
            /\ UNCHANGED <<kont, param>>
    /\ UNCHANGED <<projVars, tblVars, scanVars, resVars, stdin, out, steps,
                   natVars, pureVars>>

\* do_ast, one iteration of `for ast in asts` per action; the nested do_ast
\* calls of Split, Bracketed and Id run their body before the rest of kont
IntGuard(a) ==
    /\ phase = "interp"
    /\ kont # <<>>
    /\ Head(kont).a = a
    /\ steps < MaxSteps
    /\ steps' = steps + 1

IntFrame == <<projVars, tblVars, scanVars, resVars, natVars, pureVars>>

IntLeft ==
    /\ IntGuard("Left")
    /\ param' = Append(param, TRUE)
    /\ kont' = Tail(kont)
    /\ UNCHANGED <<phase, err, stdin, out, IntFrame>>

IntRight ==
    /\ IntGuard("Right")
    /\ param' = Append(param, FALSE)
    /\ kont' = Tail(kont)
    /\ UNCHANGED <<phase, err, stdin, out, IntFrame>>

IntSplit ==
    /\ IntGuard("Split")
    /\ LET q == Pop(param) IN
       /\ param' = q.rest
       /\ kont' = (IF q.bit THEN Head(kont).l ELSE Head(kont).r) \o Tail(kont)
    /\ UNCHANGED <<phase, err, stdin, out, IntFrame>>

IntBracketed ==
    /\ IntGuard("Bracketed")
    /\ kont' = Head(kont).c \o Tail(kont)
    /\ UNCHANGED <<phase, err, param, stdin, out, IntFrame>>

IntId ==
    /\ IntGuard("Id")
    /\ IF contains_key(func_defs, Head(kont).id)
       THEN /\ kont' = func_defs[Head(kont).id] \o Tail(kont)
            /\ UNCHANGED <<phase, err>>
       ELSE /\ phase' = "error"
            /\ err' = PanicAt("program.get(id).unwrap()")
            /\ kont' = kont
    /\ UNCHANGED <<param, stdin, out, IntFrame>>

IntPrint ==
    /\ IntGuard("Print")
    /\ LET r == PrintLoop(0, 0, param) IN
       /\ param' = r.param
       /\ out' = out \o EncodeChar(r.total)
    /\ kont' = Tail(kont)
    /\ UNCHANGED <<phase, err, stdin, IntFrame>>

IntRead ==
    /\ IntGuard("Read")
    /\ LET c == read_char(stdin) IN
       IF c.ok /\ c.v.code <= 255
       THEN /\ param' = ReadLoop(0, c.v.code, param)
            /\ stdin' = c.v.rest
            /\ kont' = Tail(kont)
            /\ UNCHANGED <<phase, err>>
       ELSE /\ phase' = "error"
            /\ err' = IF c.ok THEN PanicAt("read_char().try_into().unwrap()")
                              ELSE c.err
            /\ stdin' = SubSeq(stdin, LineLen(stdin, 0) + 1, Len(stdin))
            /\ UNCHANGED <<param, kont>>
    /\ UNCHANGED <<out, IntFrame>>

\* the outermost do_ast returns: interpret returns Ok
IntReturn ==
    /\ phase = "interp"
    /\ kont = <<>>
    /\ phase' = "done"
    /\ UNCHANGED <<err, intVars, IntFrame>>

IntStep ==
    \/ IntLeft \/ IntRight \/ IntSplit \/ IntBracketed \/ IntId
    \/ IntPrint \/ IntRead \/ IntReturn

(***************************************************************************)
(* The projects the run is checked on.  The tree is                        *)
(*     A.clink   A/B.clink   A/C.clink   main.clink                        *)
(* and a text is the sequence of its characters.                           *)
(***************************************************************************)
MaxBody == 3

\* import directives:  (none) | !A.B | !A.C | !A.B !A.C | !A.X
ImportTexts ==
    { <<>>,
      <<"!", "A", ".", "B", " ">>,
      <<"!", "A", ".", "C", " ">>,
      <<"!", "A", ".", "B", " ", "!", "A", ".", "C", " ">>,
      <<"!", "A", ".", "X", " ">> }

\* definitions:  (none) | g !; | _ f; f g; | _ f; f g; g !; | _ f; f B.g; |
\*   _ f; f A.B.g; | _ !; h g; | _ !; h ::; | _ f; f ::; | _ _; | _ f; f _; |
\*   _ (f:(g))?; f !;
DefTexts ==
    { <<>>,
      <<"g", " ", "!", ";">>,
      <<"_", " ", "f", ";", " ", "f", " ", "g", ";">>,
      <<"_", " ", "f", ";", " ", "f", " ", "g", ";", " ", "g", " ", "!", ";">>,
      <<"_", " ", "f", ";", " ", "f", " ", "B", ".", "g", ";">>,
      <<"_", " ", "f", ";", " ", "f", " ", "A", ".", "B", ".", "g", ";">>,
      <<"_", " ", "!", ";", " ", "h", " ", "g", ";">>,
      <<"_", " ", "!", ";", " ", "h", " ", ":", ":", ";">>,
      <<"_", " ", "f", ";", " ", "f", " ", ":", ":", ";">>,
      <<"_", " ", "_", ";">>,
      <<"_", " ", "f", ";", " ", "f", " ", "_", ";">>,
      <<"_", " ", "(", "f", ":", "(", "g", ")", ")", "?", ";", " ", "f", " ", "!", ";">> }

BodyChars == {"!", "?", "@", "#", ":", "(", ")"}

\* _ <body>;  for every body of at most MaxBody sigil characters
MainTexts ==
    { <<"_", " ">> \o b \o <<";">> :
        b \in UNION { [1..n -> BodyChars] : n \in 0..MaxBody } }

File(pkg, text) == [pkg |-> pkg, kind |-> "clink", text |-> text]
Dir(pkg)        == [pkg |-> pkg, kind |-> "dir", text |-> <<>>]

Tree(a, b, c, m) ==
    << File(<<"A">>, a), Dir(<<"A">>), File(<<"A", "B">>, b),
       File(<<"A", "C">>, c), File(<<"main">>, m) >>

\* projects exercising the resolver, entered at A._ or A.B._
ResolveRuns ==
    { [files |-> Tree(ia \o da, ib \o db, dc, <<"_", " ", "@", "#", ";">>),
       entry |-> e, stdin |-> <<65, 10>>] :
        ia \in ImportTexts, da \in DefTexts,
        ib \in {<<>>, <<"!", "A", ".", "C", " ">>}, db \in DefTexts,
        dc \in {<<>>, <<"g", " ", "?", ";">>},
        e \in {<<"A", "_">>, <<"A", "B", "_">>} }

\* projects of one program main._, with input "A\n" or no input
MainRuns ==
    { [files |-> Tree(<<>>, <<>>, <<>>, m), entry |-> <<"main", "_">>,
       stdin |-> i] :
        m \in MainTexts, i \in {<<65, 10>>, <<>>} }

\* projects whose main.clink imports packages under A and calls the bare
\* name g:  !A.B !A.C _ g;  |  !A.B _ g;
ImportRuns ==
    { [files |-> Tree(da, db, <<>>, m), entry |-> <<"main", "_">>,
       stdin |-> <<>>] :
        da \in {<<>>, <<"g", " ", "!", ";">>},
        db \in {<<>>, <<"g", " ", "?", ";">>},
        m \in { <<"!", "A", ".", "B", " ", "!", "A", ".", "C", " ",
                  "_", " ", "g", ";">>,
                <<"!", "A", ".", "B", " ", "_", " ", "g", ";">> } }

EmptyStack == [i \in 0..(ARRAY_SIZE - 1) |-> FALSE]

Idle ==
    /\ functions = EmptyMap /\ packages = {} /\ imported_packages = {}
    /\ imports = EmptyMap /\ func_defs = EmptyMap /\ to_parse = <<>>
    /\ scanned = EmptyMap
    /\ visits = 0 /\ err = NoErr
    /\ param = <<>> /\ kont = <<>> /\ out = <<>> /\ steps = 0
    /\ stack = EmptyStack /\ index = 0 /\ ckont = <<>> /\ cstdin = <<>>
    /\ cout = <<>>
    /\ src = <<>> /\ res = <<>>

Init ==
    /\ phase = "scan"
    /\ \E r \in ResolveRuns \cup MainRuns \cup ImportRuns :
          /\ files = r.files
          /\ entry = r.entry
          /\ input_bytes = r.stdin
          /\ stdin = r.stdin
    /\ Idle

Next ==
    \/ ScanDir
    \/ CheckImports
    \/ ParseFuncs
    \/ ParseDone
    \/ Interpret
    \/ IntStep

Spec == Init /\ [][Next]_vars

(***************************************************************************)
(* Properties of the run                                                   *)
(***************************************************************************)
Af  == <<"A", "f">>
Ag  == <<"A", "g">>
ABf == <<"A", "B", "f">>
ABg == <<"A", "B", "g">>
ACg == <<"A", "C", "g">>

\* parse_funcs has been called on p and has taken it out of the raw table
Visited(p) ==
    /\ phase \notin {"scan", "imports"}
    /\ p \in DOMAIN scanned
    /\ p \notin DOMAIN functions

\* the body of p, as scanned, is the single call of the bare name
CallsBare(p, name) ==
    p \in DOMAIN scanned /\ scanned[p] = <<Id(<<name>>)>>

Ambiguous(id) == Error("AmbiguousReference", id)

\* the Id tokens of a raw body, in source order
RECURSIVE RefsOf(_)
RefsOf(body) ==
    IF body = <<>> THEN <<>>
    ELSE IF Head(body).t = "Id" THEN <<Head(body).id>> \o RefsOf(Tail(body))
    ELSE RefsOf(Tail(body))

Prefixes(path) == { SubSeq(path, 1, k) : k \in 1..Len(path) }
ImportsOf(pkg) == IF pkg \in DOMAIN imports THEN imports[pkg] ELSE {}

\* the prefixes of p's own package, resp. of the packages its file imports,
\* under which the reference id names a scanned function
OwnMatches(p, id) ==
    { pre \in Prefixes(Dirn(p)) : (pre \o id) \in DOMAIN scanned }
ImportMatches(p, id) ==
    { pre \in UNION { Prefixes(i) : i \in ImportsOf(Dirn(p)) } :
        (pre \o id) \in DOMAIN scanned }
Unmatched(p, id) ==
    /\ id \notin DOMAIN scanned
    /\ OwnMatches(p, id) = {}
    /\ ImportMatches(p, id) = {}
TwicePrefixed(p, id) ==
    /\ id \notin DOMAIN scanned
    /\ \/ Cardinality(OwnMatches(p, id)) >= 2
       \/ OwnMatches(p, id) = {} /\ Cardinality(ImportMatches(p, id)) >= 2

\* brackets of s pair up among themselves
RECURSIVE Depths(_, _)
Depths(s, d) ==
    IF s = <<>> THEN <<d>>
    ELSE <<d>> \o Depths(Tail(s),
                         d + (IF Head(s) = LBracket THEN 1
                              ELSE IF Head(s) = RBracket THEN -1 ELSE 0))
Balanced(s) ==
    LET ds == Depths(s, 0) IN
    /\ \A i \in 1..Len(ds) : ds[i] >= 0
    /\ ds[Len(ds)] = 0
NoUnmatchedClose(s) ==
    LET ds == Depths(s, 0) IN \A i \in 1..Len(ds) : ds[i] >= 0

\* two colons of s at one nesting level, inside the same group
ColonPairs(s) ==
    { ij \in (1..Len(s)) \X (1..Len(s)) :
        /\ ij[1] < ij[2]
        /\ s[ij[1]] = Colon /\ s[ij[2]] = Colon
        /\ Balanced(SubSeq(s, ij[1] + 1, ij[2] - 1)) }

\* those of them that no unmatched `)` precedes
KeptColonPairs(s) ==
    { ij \in ColonPairs(s) : NoUnmatchedClose(SubSeq(s, 1, ij[1] - 1)) }

\* C3: the project whose main.clink is `_ @#;`, run on the input "A\n",
\* ends normally having written exactly the byte 'A'.
C3_EndToEnd ==
    ( /\ files = Tree(<<>>, <<>>, <<>>, <<"_", " ", "@", "#", ";">>)
      /\ entry = <<"main", "_">>
      /\ input_bytes = <<65, 10>>
      /\ phase \in {"done", "error"} )
    => (phase = "done" /\ out = <<65>>)

\* C4 as stated: with A.f calling bare g, A.B defining g and no import in
\* A's file, resolving f succeeds; with A.C defining g too it ends in
\* AmbiguousReference.
C4_SiblingAsStated ==
    ( /\ Visited(Af) /\ CallsBare(Af, "g")
      /\ ABg \in DOMAIN scanned
      /\ ImportsOf(<<"A">>) = {} )
    => IF ACg \in DOMAIN scanned
       THEN phase = "error" /\ err = Ambiguous(<<"g">>)
       ELSE Af \in DOMAIN func_defs

\* C4 amended: with A.B.f calling bare g and the enclosing package A
\* defining g, resolving f binds the call to A.g through the ancestor-prefix
\* search, whatever the file imports; if A.B defines g too it ends in
\* AmbiguousReference.
C4_AncestorPrefix ==
    ( /\ Visited(ABf) /\ CallsBare(ABf, "g")
      /\ Ag \in DOMAIN scanned )
    => IF ABg \in DOMAIN scanned
       THEN phase = "error" /\ err = Ambiguous(<<"g">>)
       ELSE /\ ABf \in DOMAIN func_defs
            /\ func_defs[ABf] = <<ASTId(Ag)>>

C4_Witness ==
    /\ Visited(ABf) /\ CallsBare(ABf, "g")
    /\ Ag \in DOMAIN scanned /\ ABg \notin DOMAIN scanned
    /\ ImportsOf(<<"A", "B">>) = {}
    /\ ABf \in DOMAIN func_defs
    /\ func_defs[ABf] = <<ASTId(Ag)>>

\* the qualified paths the reference id of p's body can denote: the known
\* paths the search of lines 326-362 tries
Candidates(p, id) ==
    { m \in DOMAIN scanned :
        \/ m = id
        \/ \E pre \in OwnMatches(p, id) : m = pre \o id
        \/ \E pre \in ImportMatches(p, id) : m = pre \o id }

\* C17: resolution ends in AmbiguousReference only for a reference that can
\* denote two distinct qualified paths; a reference whose candidates are one
\* single function is never rejected as ambiguous.
C17_OnlyTwoPaths ==
    (phase = "error" /\ err.kind = "AmbiguousReference") =>
        \E p \in DOMAIN scanned :
            /\ Visited(p)
            /\ \E k \in 1..Len(RefsOf(scanned[p])) :
                  /\ RefsOf(scanned[p])[k] = err.arg
                  /\ Cardinality(Candidates(p, err.arg)) >= 2

\* the number of Id tokens in the scanned bodies of the functions in S
RECURSIVE RefCount(_)
RefCount(S) ==
    IF S = {} THEN 0
    ELSE LET p == CHOOSE x \in S : TRUE
         IN  Len(RefsOf(scanned[p])) + RefCount(S \ {p})

\* C18: resolution terminates on every call graph, recursive ones too.
\* Every scanned function is either still in the raw table or resolved,
\* never both; the parse_funcs calls made and pending are the first one and
\* one per reference of a resolved body, so there are at most as many as
\* the scanned bodies hold references, plus one; the call on a function
\* that is no longer in the raw table changes neither table; and a resolved
\* body is never replaced.
C18_ResolvedOnce ==
    /\ [](visits <= 1 + RefCount(DOMAIN scanned))
    /\ [](phase \in {"resolve", "parsed", "interp", "done"} =>
            /\ DOMAIN functions \cap DOMAIN func_defs = {}
            /\ DOMAIN functions \cup DOMAIN func_defs = DOMAIN scanned
            /\ visits + Len(to_parse) = 1 + RefCount(DOMAIN func_defs))
    /\ [][ /\ (phase = "resolve" /\ to_parse # <<>>
               /\ Head(to_parse) \notin DOMAIN functions) =>
                  (/\ func_defs' = func_defs /\ functions' = functions
                   /\ to_parse' = Tail(to_parse) /\ phase' = phase)
           /\ \A p \in DOMAIN func_defs :
                  p \in DOMAIN func_defs' /\ func_defs'[p] = func_defs[p]
         ]_vars

\* A._ calls A.f and A.f calls A._: both are resolved after three calls,
\* the third being the repeated visit of A._
C18_Witness ==
    /\ phase = "parsed"
    /\ visits = 3
    /\ DOMAIN func_defs = {<<"A", "_">>, Af}
    /\ func_defs[<<"A", "_">>] = <<ASTId(Af)>>
    /\ func_defs[Af] = <<ASTId(<<"A", "_">>)>>

\* the paths called anywhere in an AST sequence
RECURSIVE IdsOf(_)
IdsOf(asts) ==
    IF asts = <<>> THEN {}
    ELSE LET h == Head(asts) IN
         (CASE h.a = "Id"        -> {h.id}
            [] h.a = "Split"     -> IdsOf(h.l) \cup IdsOf(h.r)
            [] h.a = "Bracketed" -> IdsOf(h.c)
            [] OTHER             -> {})
         \cup IdsOf(Tail(asts))

\* C5: once parse has returned Ok, every path called in a body of the
\* program table is a key of the table, and the interpreter's lookup of a
\* called path never fails.
C5_TableClosed ==
    /\ phase \in {"parsed", "interp", "done"} =>
          \A p \in DOMAIN func_defs : IdsOf(func_defs[p]) \subseteq DOMAIN func_defs
    /\ err # PanicAt("program.get(id).unwrap()")

C5_Witness ==
    /\ phase = "done"
    /\ steps >= 4
    /\ \E p \in DOMAIN func_defs : \E i \in 1..Len(func_defs[p]) :
          /\ func_defs[p][i].a = "Bracketed"
          /\ Cardinality(IdsOf(func_defs[p][i].c)) = 2

\* C6: a visited function whose first reference matches no scanned path,
\* neither exactly nor under a prefix of its package nor under a prefix of
\* an imported package, ends the run with UnknownFunction.
C6_UnknownFunction ==
    \A p \in DOMAIN scanned :
        ( /\ Visited(p)
          /\ RefsOf(scanned[p]) # <<>>
          /\ Unmatched(p, RefsOf(scanned[p])[1]) )
        => ( /\ phase = "error"
             /\ err = Error("UnknownFunction", RefsOf(scanned[p])[1]) )

\* C7: when some scanned function, reachable from the entry or not, has an
\* unresolvable or ambiguous first reference or two colons in one group of
\* its bracket tree, the run never enters the interpreter.
C7_ErrorsBeforeExecution ==
    ( \E p \in DOMAIN scanned :
         \/ /\ RefsOf(scanned[p]) # <<>>
            /\ \/ Unmatched(p, RefsOf(scanned[p])[1])
               \/ TwicePrefixed(p, RefsOf(scanned[p])[1])
         \/ KeptColonPairs(scanned[p]) # {} )
    => (phase \notin {"interp", "done"} /\ steps = 0)

\* C8: a visited function whose first reference, not itself a scanned path,
\* names a scanned function under two distinct prefixes of its own package,
\* or under none of them and under two distinct prefixes of imported
\* packages, ends the run with AmbiguousReference.
C8_Ambiguous ==
    \A p \in DOMAIN scanned :
        ( /\ Visited(p)
          /\ RefsOf(scanned[p]) # <<>>
          /\ TwicePrefixed(p, RefsOf(scanned[p])[1]) )
        => ( /\ phase = "error"
             /\ err = Ambiguous(RefsOf(scanned[p])[1]) )

C8_Witness ==
    /\ phase = "error"
    /\ \E p \in DOMAIN scanned :
          /\ Visited(p)
          /\ RefsOf(scanned[p]) # <<>>
          /\ OwnMatches(p, RefsOf(scanned[p])[1]) = {}
          /\ Cardinality(ImportMatches(p, RefsOf(scanned[p])[1])) >= 2
          /\ err = Ambiguous(RefsOf(scanned[p])[1])

(***************************************************************************)
(* The structural parser and the AST builder on their own: every token     *)
(* sequence of at most MaxLen tokens, taken through line 376               *)
(***************************************************************************)
MaxLen == 6

ParseTokens == {Bang, Question, Colon, LBracket, RBracket}

TokenSeqs == UNION { [1..n -> ParseTokens] : n \in 0..MaxLen }

InitParse ==
    /\ phase = "tokens"
    /\ src \in TokenSeqs
    /\ res = <<>>
    /\ files = <<>> /\ entry = <<>> /\ input_bytes = <<>> /\ stdin = <<>>
    /\ functions = EmptyMap /\ packages = {} /\ imported_packages = {}
    /\ imports = EmptyMap /\ func_defs = EmptyMap /\ to_parse = <<>>
    /\ scanned = EmptyMap /\ visits = 0 /\ err = NoErr
    /\ param = <<>> /\ kont = <<>> /\ out = <<>> /\ steps = 0
    /\ stack = EmptyStack /\ index = 0 /\ ckont = <<>> /\ cstdin = <<>>
    /\ cout = <<>>

\* line 376: parse_functions(parse_colon(parse_brackets(new_f)?)?)
ParseStructure ==
    /\ phase = "tokens"
    /\ phase' = "built"
    /\ LET b == parse_brackets(src)
           c == parse_colon(b)
       IN  res' = [brackets |-> b, colon |-> c,
                   ast |-> IF c.ok THEN parse_functions(c.v) ELSE <<>>]
    /\ UNCHANGED <<projVars, tblVars, scanVars, resVars, err, intVars,
                   natVars, src>>

NextParse == ParseStructure

SpecParse == InitParse /\ [][NextParse]_vars

\* C9 as stated: a body with two colons at one nesting level, inside the
\* same group, fails with UnknownAssociativity whatever tokens surround them.
C9_AsStated ==
    (phase = "built" /\ ColonPairs(src) # {})
    => (~res.colon.ok /\ res.colon.err = "UnknownAssociativity")

\* C9 amended: a body with two colons inside the same group that no
\* unmatched `)` precedes fails with UnknownAssociativity.
C9_KeptColons ==
    (phase = "built" /\ KeptColonPairs(src) # {})
    => (~res.colon.ok /\ res.colon.err = "UnknownAssociativity")

C9_Witness ==
    /\ phase = "built"
    /\ \E ij \in KeptColonPairs(src) :
          /\ ij[1] > 1 /\ src[ij[1] - 1] = LBracket
          /\ ij[2] > ij[1] + 2
    /\ ~res.colon.ok

\* after is before with each group that holds one colon collapsed to the
\* Split of what stands before and after the colon
RECURSIVE WellSplit(_, _)
SameItems(after, before) ==
    /\ Len(after) = Len(before)
    /\ \A i \in 1..Len(before) :
          IF before[i].t = "Bracket"
          THEN after[i].t = "Bracket" /\ WellSplit(after[i].c, before[i].c)
          ELSE after[i] = before[i]
WellSplit(after, before) ==
    LET cs == { i \in 1..Len(before) : before[i] = Colon } IN
    IF cs = {} THEN SameItems(after, before)
    ELSE /\ Cardinality(cs) = 1
         /\ Len(after) = 1
         /\ after[1].t = "Split"
         /\ LET k == CHOOSE i \in cs : TRUE IN
            /\ SameItems(after[1].l, SubSeq(before, 1, k - 1))
            /\ SameItems(after[1].r, SubSeq(before, k + 1, Len(before)))

\* C10: when parse_colon succeeds, every group with one colon has become the
\* single Split of the tokens before and after it, in order, every group
\* without a colon is unchanged, and nested groups are split on their own.
C10_SplitPartition ==
    (phase = "built" /\ res.colon.ok) => WellSplit(res.colon.v, res.brackets)

C10_Witness ==
    /\ phase = "built"
    /\ res.colon.ok
    /\ Len(res.colon.v) = 1
    /\ res.colon.v[1].t = "Split"
    /\ res.colon.v[1].l = <<Bang>>
    /\ Len(res.colon.v[1].r) = 2
    /\ res.colon.v[1].r[1] = Question
    /\ res.colon.v[1].r[2].t = "Bracket"
    /\ res.colon.v[1].r[2].c = <<Split(<<>>, <<Bang>>)>>

\* the AST of a split tree, told from the end of the sequence backwards:
\* groups at the end whose own AST is empty leave nothing; the last token
\* that leaves something opens the AST, a group with its body's nodes
\* themselves, any other token with its node; every token before it follows
\* as one node, a group as a Bracketed node, last token first
RECURSIVE Reversed(_)
RECURSIVE NodeOf(_)
NodeOf(token) ==
    CASE token.t = "Bang"     -> <<ASTLeft>>
      [] token.t = "Question" -> <<ASTRight>>
      [] token.t = "At"       -> <<ASTRead>>
      [] token.t = "Hash"     -> <<ASTPrint>>
      [] token.t = "Id"       -> <<ASTId(token.id)>>
      [] token.t = "Split"    -> <<ASTSplit(Reversed(token.l), Reversed(token.r))>>
      [] token.t = "Bracket"  -> <<Bracketed(Reversed(token.c))>>
      [] OTHER                -> <<>>
RECURSIVE NodesBackwards(_)
NodesBackwards(ts) ==
    IF ts = <<>> THEN <<>>
    ELSE NodeOf(ts[Len(ts)]) \o NodesBackwards(SubSeq(ts, 1, Len(ts) - 1))
Reversed(ts) ==
    IF ts = <<>> THEN <<>>
    ELSE LET last == ts[Len(ts)]
             init == SubSeq(ts, 1, Len(ts) - 1)
             first == IF last.t = "Bracket" THEN Reversed(last.c)
                      ELSE NodeOf(last)
         IN  IF first = <<>> THEN Reversed(init)
             ELSE first \o NodesBackwards(init)

\* C16: the AST built from a body holds the nodes of its tokens in the
\* reverse of their source order, inside Split branches and groups too; a
\* group is a Bracketed node unless the builder meets it with nothing
\* accumulated yet, and then its built body is the accumulator.
C16_ReverseOrder ==
    (phase = "built" /\ res.colon.ok) => res.ast = Reversed(res.colon.v)

\* `(?)(!)`: the last group was met first and opened the AST unwrapped, the
\* first group follows it as a Bracketed node
C16_Witness ==
    /\ phase = "built"
    /\ src = <<LBracket, Question, RBracket, LBracket, Bang, RBracket>>
    /\ res.ast = <<ASTLeft, Bracketed(<<ASTRight>>)>>

\* a bracket tree written back as a flat token sequence
RECURSIVE Unfold(_)
Unfold(ts) ==
    IF ts = <<>> THEN <<>>
    ELSE (IF Head(ts).t = "Bracket"
          THEN <<LBracket>> \o Unfold(Head(ts).c) \o <<RBracket>>
          ELSE <<Head(ts)>>) \o Unfold(Tail(ts))

\* no LBracket or RBracket token is left anywhere in a bracket tree
RECURSIVE NoRawBrackets(_)
NoRawBrackets(ts) ==
    \A i \in 1..Len(ts) :
        /\ ts[i] # LBracket /\ ts[i] # RBracket
        /\ ts[i].t = "Bracket" => NoRawBrackets(ts[i].c)

\* the position of the first `)` of s that closes no open group, or
\* Len(s) + 1 when there is none
FirstUnmatched(s) ==
    LET ds == Depths(s, 0)
        bad == { i \in 1..Len(s) : ds[i + 1] < 0 }
    IN  IF bad = {} THEN Len(s) + 1
        ELSE CHOOSE i \in bad : \A j \in bad : i <= j

Closers(n) == [i \in 1..n |-> RBracket]

\* C11: for every token sequence, balanced or not, the bracket pass returns
\* a tree: the tokens up to the first unmatched `)`, which ends the
\* top-level group, with every group still open at the end of input closed
\* there as it stands.
C11_Lenient ==
    phase = "built" =>
        LET p == SubSeq(src, 1, FirstUnmatched(src) - 1)
            open == Depths(p, 0)[Len(p) + 1]
        IN  /\ NoRawBrackets(res.brackets)
            /\ Unfold(res.brackets) = p \o Closers(open)

C11_Witness ==
    /\ phase = "built"
    /\ src = <<LBracket, Bang, RBracket, RBracket, LBracket, Question>>
    /\ res.brackets = <<Bracket(<<Bang>>)>>

(***************************************************************************)
(* The lexer and the top-level token loop on one file A.clink: every text  *)
(* of at most MaxText characters                                           *)
(*   phase "text"     the file's content has been read                     *)
(*         "lexed"    tokenise has returned                                *)
(*         "scanned"  scan_dir has returned                                *)
(***************************************************************************)
MaxText == 4

TextChars == Sigils \cup {" ", ".", "a"}

Texts == UNION { [1..n -> TextChars] : n \in 0..MaxText }

InitScan ==
    /\ phase = "text"
    /\ src \in Texts
    /\ res = <<>>
    /\ files = <<>> /\ entry = <<>> /\ input_bytes = <<>> /\ stdin = <<>>
    /\ functions = EmptyMap /\ packages = {} /\ imported_packages = {}
    /\ imports = EmptyMap /\ func_defs = EmptyMap /\ to_parse = <<>>
    /\ scanned = EmptyMap /\ visits = 0 /\ err = NoErr
    /\ param = <<>> /\ kont = <<>> /\ out = <<>> /\ steps = 0
    /\ stack = EmptyStack /\ index = 0 /\ ckont = <<>> /\ cstdin = <<>>
    /\ cout = <<>>

\* line 243: tokenise(content.as_str())
Tokenise ==
    /\ phase = "text"
    /\ phase' = "lexed"
    /\ res' = [tokens |-> tokenise(src)]
    /\ UNCHANGED <<projVars, tblVars, scanVars, resVars, err, intVars,
                   natVars, src>>

\* scan_dir on the directory that holds the one file: Ok(tables) or
\* Err(error)
ScanFile ==
    /\ phase = "lexed"
    /\ phase' = "scanned"
    /\ res' = [tokens |-> res.tokens,
               scan |-> scan_dir(<<File(<<"A">>, src)>>,
                                 [functions |-> EmptyMap, packages |-> {},
                                  imported_packages |-> {},
                                  imports |-> EmptyMap])]
    /\ UNCHANGED <<projVars, tblVars, scanVars, resVars, err, intVars,
                   natVars, src>>

NextScan == Tokenise \/ ScanFile

SpecScan == InitScan /\ [][NextScan]_vars

\* the position of the first `;` of ts after position i, or Len(ts) + 1
NextSemicolon(ts, i) ==
    LET semis == { j \in (i + 1)..Len(ts) : ts[j] = Semicolon } IN
    IF semis = {} THEN Len(ts) + 1
    ELSE CHOOSE j \in semis : \A k \in semis : j <= k

\* the positions, from i on, of the import-marks that stand at top level
\* (outside every function definition) with nothing faulty before them;
\* seen holds the function names defined so far
RECURSIVE TopMarks(_, _, _)
TopMarks(ts, i, seen) ==
    IF i > Len(ts) THEN {}
    ELSE IF ts[i] = Bang
    THEN {i} \cup (IF i < Len(ts) /\ ts[i + 1].t = "Id"
                   THEN TopMarks(ts, i + 2, seen)
                   ELSE {})
    ELSE IF ts[i].t = "Id"
    THEN IF Len(ts[i].id) # 1 \/ ts[i].id[1] \in seen THEN {}
         ELSE TopMarks(ts, NextSemicolon(ts, i) + 1,
                       seen \cup {ts[i].id[1]})
    ELSE TopMarks(ts, i + 1, seen)

\* C12: a file with a top-level import-mark that no Id token follows,
\* because another token follows it or because it is the last token of the
\* file, is rejected with ExpectedPackageName.
C12_ExpectedPackageName ==
    ( /\ phase = "scanned"
      /\ \E i \in TopMarks(res.tokens, 1, {}) :
            i = Len(res.tokens) \/ res.tokens[i + 1].t # "Id" )
    => ( /\ ~res.scan.ok
         /\ res.scan.err = Error("ExpectedPackageName", <<>>) )

\* the part of C12 the scan does ensure: a top-level import-mark followed
\* by a token that is not an Id is rejected with ExpectedPackageName.
C12_FollowedByOther ==
    ( /\ phase = "scanned"
      /\ \E i \in TopMarks(res.tokens, 1, {}) :
            i < Len(res.tokens) /\ res.tokens[i + 1].t # "Id" )
    => ( /\ ~res.scan.ok
         /\ res.scan.err = Error("ExpectedPackageName", <<>>) )

\* a set of numbers as the increasing sequence of its elements
RECURSIVE Ascending(_)
Ascending(S) ==
    IF S = {} THEN <<>>
    ELSE LET m == CHOOSE x \in S : \A y \in S : x <= y
         IN  <<m>> \o Ascending(S \ {m})

\* a sequence of characters as one string
RECURSIVE Str(_)
Str(chars) == IF chars = <<>> THEN "" ELSE Head(chars) \o Str(Tail(chars))

\* the strings of at most n characters, none of them a reserved character,
\* whitespace or a dot
RECURSIVE Words(_)
Words(n) ==
    IF n = 0 THEN {""}
    ELSE LET ws == Words(n - 1) IN
         ws \cup { w \o ch : w \in ws,
                             ch \in { c \in TextChars \ Sigils :
                                        c # "." /\ ~is_whitespace(c) } }

IdChar(ch) == ch \notin Sigils /\ ~is_whitespace(ch)

\* where the tokens of a text begin: at every reserved character and at the
\* first character of every maximal run of identifier characters
TokenStarts(text) ==
    { i \in 1..Len(text) :
        \/ text[i] \in Sigils
        \/ IdChar(text[i]) /\ (i = 1 \/ ~IdChar(text[i - 1])) }

\* the maximal run of identifier characters that begins at position i
RunAt(text, i) ==
    LET ends == { j \in i..Len(text) : \A k \in i..j : IdChar(text[k]) }
    IN  SubSeq(text, i, CHOOSE j \in ends : \A k \in ends : k <= j)

\* an identifier text cut at each of its dots
DotSegments(run) ==
    LET d == Ascending({ k \in 1..Len(run) : run[k] = "." })
        cut(n) == IF n = 0 THEN 0
                  ELSE IF n = Len(d) + 1 THEN Len(run) + 1 ELSE d[n]
    IN  [n \in 1..(Len(d) + 1) |->
            Str(SubSeq(run, cut(n - 1) + 1, cut(n) - 1))]

ExpectedTokens(text) ==
    LET at == Ascending(TokenStarts(text)) IN
    [k \in 1..Len(at) |->
        IF text[at[k]] \in Sigils THEN SigilToken(text[at[k]])
        ELSE Id(DotSegments(RunAt(text, at[k])))]

\* C14: the lexer returns for every text: each reserved character has
\* become its own token, each maximal run of other non-whitespace characters
\* has become one Id token holding the run cut exactly at its dots, at
\* least one segment, and no segment holds a reserved character, whitespace
\* or a dot.
C14_Lexer ==
    phase \in {"lexed", "scanned"} =>
        /\ res.tokens = ExpectedTokens(src)
        /\ \A k \in 1..Len(res.tokens) :
              res.tokens[k].t = "Id" =>
                 /\ Len(res.tokens[k].id) >= 1
                 /\ \A n \in 1..Len(res.tokens[k].id) :
                       res.tokens[k].id[n] \in Words(Len(src))

C14_Witness ==
    /\ phase = "lexed"
    /\ src = <<"a", ".", "a", "(">>
    /\ res.tokens = <<Id(<<"a", "a">>), LBracket>>

(***************************************************************************)
(* The two backends on the same program table and the same input:          *)
(* `clink run`, then `clink build` and the run of the executable           *)
(*   phase "native"   the generated main is executing ckont                *)
(*         "exit"     the generated main returned                          *)
(***************************************************************************)
MaxProg == 3
MaxPrefix == 2

Main == <<"main", "_">>

ExecTokens ==
    {Bang, Question, At, Hash, Colon, LBracket, RBracket, Id(Main)}

\* the bodies parse_funcs builds from at most MaxProg resolved tokens
ExecPrograms ==
    { BuildBody(ts).v :
        ts \in { t \in UNION { [1..n -> ExecTokens] : n \in 0..MaxProg } :
                    BuildBody(t).ok } }

\* the bodies of `#@` followed by at most MaxPrefix pushes: the pushes run
\* first, then Read, then Print
RoundTripPrograms ==
    { BuildBody(<<Hash, At>> \o pre).v :
        pre \in UNION { [1..n -> {Bang, Question}] : n \in 0..MaxPrefix } }

ExecRuns ==
    { [prog |-> b, stdin |-> i] :
        b \in ExecPrograms, i \in {<<65, 10>>, <<>>} }
    \cup
    { [prog |-> b, stdin |-> <<c, NewLine>>] :
        b \in RoundTripPrograms, c \in 0..255 }

InitExec ==
    /\ phase = "parsed"
    /\ entry = Main
    /\ \E r \in ExecRuns :
          /\ func_defs = [p \in {Main} |-> r.prog]
          /\ input_bytes = r.stdin
          /\ stdin = r.stdin
    /\ files = <<>>
    /\ functions = EmptyMap /\ packages = {} /\ imported_packages = {}
    /\ imports = EmptyMap /\ to_parse = <<>>
    /\ scanned = EmptyMap /\ visits = 0 /\ err = NoErr
    /\ param = <<>> /\ kont = <<>> /\ out = <<>> /\ steps = 0
    /\ stack = EmptyStack /\ index = 0 /\ ckont = <<>> /\ cstdin = <<>>
    /\ cout = <<>>
    /\ src = <<>> /\ res = <<>>

\* compile (lines 16-213) and the start of the executable: the globals are
\* zero-initialised and main calls the entry function
Build ==
    /\ phase \in {"done", "error"}
    /\ IF contains_key(func_defs, entry)
       THEN /\ phase' = "native"
            /\ ckont' = func_defs[entry]
            /\ err' = err
       ELSE /\ phase' = "error"
            /\ err' = PanicAt("entry_func.unwrap()")
            /\ ckont' = ckont
    /\ stack' = EmptyStack
    /\ index' = 0
    /\ cstdin' = input_bytes
    /\ cout' = <<>>
    /\ steps' = 0
    /\ UNCHANGED <<projVars, tblVars, scanVars, resVars, param, kont, stdin,
                   out, pureVars>>

\* the code build_ast emits for one AST node (lines 265-368), one node per
\* action; a call or an inlined body runs before the rest of ckont
NatGuard(a) ==
    /\ phase = "native"
    /\ ckont # <<>>
    /\ Head(ckont).a = a
    /\ steps < MaxSteps
    /\ steps' = steps + 1

NatFrame == <<projVars, tblVars, scanVars, resVars, param, kont, stdin, out,
              pureVars>>

NatLeft ==
    /\ NatGuard("Left")
    /\ stack' = [stack EXCEPT ![index] = TRUE]
    /\ index' = incri(index)
    /\ ckont' = Tail(ckont)
    /\ UNCHANGED <<phase, err, cstdin, cout, NatFrame>>

NatRight ==
    /\ NatGuard("Right")
    /\ stack' = [stack EXCEPT ![index] = FALSE]
    /\ index' = incri(index)
    /\ ckont' = Tail(ckont)
    /\ UNCHANGED <<phase, err, cstdin, cout, NatFrame>>

NatSplit ==
    /\ NatGuard("Split")
    /\ index' = decri(index)
    /\ ckont' = (IF stack[index'] THEN Head(ckont).l ELSE Head(ckont).r)
                \o Tail(ckont)
    /\ UNCHANGED <<phase, err, stack, cstdin, cout, NatFrame>>

NatBracketed ==
    /\ NatGuard("Bracketed")
    /\ ckont' = Head(ckont).c \o Tail(ckont)
    /\ UNCHANGED <<phase, err, stack, index, cstdin, cout, NatFrame>>

NatId ==
    /\ NatGuard("Id")
    /\ IF contains_key(func_defs, Head(ckont).id)
       THEN /\ ckont' = func_defs[Head(ckont).id] \o Tail(ckont)
            /\ UNCHANGED <<phase, err>>
       ELSE /\ phase' = "error"
            /\ err' = PanicAt("env.func_defs[&id]")
            /\ ckont' = ckont
    /\ UNCHANGED <<stack, index, cstdin, cout, NatFrame>>

NatPrint ==
    /\ NatGuard("Print")
    /\ LET r == NatPrintLoop(0, 0, index, stack) IN
       /\ index' = r.index
       /\ cout' = cout \o putchar(r.acc)
    /\ ckont' = Tail(ckont)
    /\ UNCHANGED <<phase, err, stack, cstdin, NatFrame>>

NatRead ==
    /\ NatGuard("Read")
    /\ LET g == getchar(cstdin)
           r == NatReadLoop(0, g.c, index, stack)
       IN  /\ cstdin' = g.rest
           /\ stack' = r.stack
           /\ index' = r.index
    /\ ckont' = Tail(ckont)
    /\ UNCHANGED <<phase, err, cout, NatFrame>>

\* the entry function returns to main, which returns
NatReturn ==
    /\ phase = "native"
    /\ ckont = <<>>
    /\ phase' = "exit"
    /\ UNCHANGED <<err, natVars, steps, NatFrame>>

NatStep ==
    \/ NatLeft \/ NatRight \/ NatSplit \/ NatBracketed \/ NatId
    \/ NatPrint \/ NatRead \/ NatReturn

NextExec ==
    \/ Interpret
    \/ IntStep
    \/ Build
    \/ NatStep

SpecExec == InitExec /\ [][NextExec]_vars

\* C1: when the interpreter and the executable have both run the program to
\* its end on the same input, they have written the same bytes.
C1_SameOutput ==
    (phase = "exit" /\ err = NoErr) => cout = out

\* the stack a body's leading pushes build
Pushed(body) == [i \in 1..(Len(body) - 2) |-> body[i] = ASTLeft]

\* C2: when the program is pushes, then Read, then Print, and the input is a
\* byte b and a line terminator, the interpreter ends normally having written
\* exactly b, with the stack the pushes built.
C2_RoundTrip ==
    LET body == func_defs[Main] IN
    ( /\ phase \in {"done", "error"}
      /\ Len(body) >= 2
      /\ body[Len(body) - 1] = ASTRead
      /\ body[Len(body)] = ASTPrint
      /\ \A i \in 1..(Len(body) - 2) : body[i] \in {ASTLeft, ASTRight}
      /\ Len(input_bytes) = 2
      /\ input_bytes[2] = NewLine )
    => ( /\ phase = "done"
         /\ out = <<input_bytes[1]>>
         /\ param = Pushed(body) )

\* C13: a step of the interpreter at a Split node removes exactly the top
\* value of the stack (an empty stack stays empty and counts as false) and
\* continues with the left body if that value was true, with the right body
\* otherwise, on the same stack; it reads and writes nothing.
C13_SplitStep ==
    [][ (phase = "interp" /\ kont # <<>> /\ Head(kont).a = "Split") =>
           LET n == Len(param)
               top == IF n = 0 THEN FALSE ELSE param[n]
           IN  /\ param' = (IF n = 0 THEN <<>> ELSE SubSeq(param, 1, n - 1))
               /\ kont' = (IF top THEN Head(kont).l ELSE Head(kont).r)
                             \o Tail(kont)
               /\ out' = out /\ stdin' = stdin
               /\ phase' = "interp" ]_vars

\* the body `: main._ !` has split on the empty stack, pushed true in the
\* right branch, called itself and split again, this time to the left
C13_Witness ==
    /\ phase = "interp"
    /\ func_defs[Main] = <<ASTSplit(<<>>, <<ASTLeft, ASTId(Main)>>)>>
    /\ steps = 4
    /\ param = <<>>
    /\ kont = <<>>

(***************************************************************************)
(* The executable near the two ends of its buffer: a function body is      *)
(* entered with the cursor at most MaxEdge slots from either end and true  *)
(* in every slot below it, which is what that many `!` before the call     *)
(* leave behind                                                            *)
(***************************************************************************)
MaxEdge == 1

CursorStarts ==
    (0..MaxEdge) \cup ((ARRAY_SIZE - 1 - MaxEdge)..(ARRAY_SIZE - 1))

InitCursor ==
    /\ phase = "native"
    /\ entry = Main
    /\ \E b \in ExecPrograms, i \in {<<65, 10>>, <<>>} :
          /\ func_defs = [p \in {Main} |-> b]
          /\ ckont = b
          /\ input_bytes = i
          /\ cstdin = i
    /\ index \in CursorStarts
    /\ stack = [i \in 0..(ARRAY_SIZE - 1) |-> i < index]
    /\ files = <<>> /\ stdin = <<>>
    /\ functions = EmptyMap /\ packages = {} /\ imported_packages = {}
    /\ imports = EmptyMap /\ to_parse = <<>>
    /\ scanned = EmptyMap /\ visits = 0 /\ err = NoErr
    /\ param = <<>> /\ kont = <<>> /\ out = <<>> /\ steps = 0
    /\ cout = <<>>
    /\ src = <<>> /\ res = <<>>

NextCursor == NatStep

SpecCursor == InitCursor /\ [][NextCursor]_vars

Slots == 0..(ARRAY_SIZE - 1)

====
